---- MODULE Spec2Model ----
(***************************************************************************)
(* Notes / trash lifecycle of the notes server (server.js) over the        *)
(* Firebase Realtime Database.  Every express handler is a sequence of     *)
(* steps, one per awaited store call; handlers of different requests       *)
(* interleave at those awaits.                                              *)
(***************************************************************************)
EXTENDS Integers, FiniteSets, Sequences, TLC

VARIABLES
  notes,    \* notes[uid]: the node users/<uid>/notes, key -> record
  trash,    \* trash[uid]: the node users/<uid>/trash, key -> record
  nextKey,  \* the next key push() hands out
  clock,    \* the reading of Date.now()
  reqs,     \* reqs[s]: the request handled in slot s, with its handler's locals
  root,     \* history: root[k] is the key of the note the record pushed at k descends from
  removed,  \* history: removed[uid] are the ids a DELETE /api/notes/:id has removed
  purged,   \* history: purged[uid] are the roots DELETE /api/trash/:id removed a copy of
  uploads,  \* the files in the directory uploads/ (multer's dest)
  bucket,   \* the objects in the storage bucket
  idToken,      \* app.js: the ID token the browser client holds, or null
  clientNotes,  \* app.js: the array notes
  clientTrash,  \* app.js: the array trash
  tasks,        \* app.js: tasks[t] is the async function call t of the client
  fetched       \* history: the array fetchNotes last assigned to notes

vars ==
  <<notes, trash, nextKey, clock, reqs, root, removed, purged, uploads, bucket,
    idToken, clientNotes, clientTrash, tasks, fetched>>

(* ------------------------------ bounds --------------------------------- *)
\* last reading of Date.now()
MaxClock == 2
\* number of requests that arrive in a run; any number of them may be in
\* flight at the same time
MaxReq == 2

(* ------------------------------ values --------------------------------- *)
Owners == {"u1", "u2"}
\* bearer tokens: the id token of each owner, and one verifyIdToken rejects
Tokens == Owners \cup {"bad"}
Slots == 1..MaxReq
\* a JSON null
Null == "null"
\* the empty object; snap.val() of a missing node is null, and a node with
\* no children does not exist, so the empty object stands for both
Empty == [f \in {} |-> 0]
\* an id a client makes up, never produced by push()
GhostKey == 0
NoKey == -1
NoUid == "none"

\* the file part of a multipart POST /api/upload: originalname, mimetype, size
Files ==
  { [name |-> "a.pdf", mime |-> "application/pdf", size |-> 1],
    [name |-> "b.png", mime |-> "image/png", size |-> 2] }
\* a POST /api/upload without a file part: multer leaves req.file undefined
NoFile == Empty

\* request bodies of POST /api/notes
CreateBodies == {Empty, [text |-> "a", file |-> "f1"]}
\* request bodies of PUT /api/notes/:id
UpdateBodies ==
  { [text |-> "b"],
    [done |-> TRUE],
    [id |-> 1],
    [done |-> FALSE, updatedAt |-> 0],
    [createdAt |-> MaxClock + 1] }

(* --------------------------- JS / Firebase ----------------------------- *)
\* { ...a, ...b }: the later spread wins
Spread(a, b) ==
  [f \in DOMAIN a \cup DOMAIN b |-> IF f \in DOMAIN b THEN b[f] ELSE a[f]]

\* only text and file are ever given a null in this model
IsNull(f, v) == f \in {"text", "file"} /\ v = Null

\* the database stores no null: a null child is a deleted child
StoreVal(v) ==
  LET keep == {f \in DOMAIN v : ~IsNull(f, v[f])}
  IN  [f \in keep |-> v[f]]

\* ref.child(k).once('value') then snap.val()
DbGet(coll, k) == IF k \in DOMAIN coll THEN coll[k] ELSE Empty

\* ref.child(k).set(v), the write behind push(v)
DbSet(coll, k, v) ==
  LET sv == StoreVal(v)
  IN  IF sv = Empty
      THEN [x \in DOMAIN coll \ {k} |-> coll[x]]
      ELSE [x \in DOMAIN coll \cup {k} |-> IF x = k THEN sv ELSE coll[x]]

\* a bug: update() that replaces the node, as set() does
DbUpdateReplace(coll, k, u) == DbSet(coll, k, u)

\* ref.child(k).update(u): merges the given children into the node at k,
\* creating the node when it does not exist
DbUpdate(coll, k, u) == DbSet(coll, k, Spread(DbGet(coll, k), u))

\* ref.child(k).remove(): succeeds whether or not the node exists
DbRemove(coll, k) == [x \in DOMAIN coll \ {k} |-> coll[x]]

\* x || d
OrElse(body, f, d) ==
  IF f \in DOMAIN body /\ body[f] # Null /\ body[f] # "" THEN body[f] ELSE d

RECURSIVE KeySeq(_)
\* Object.keys(data), in key order
KeySeq(S) ==
  IF S = {} THEN << >>
  ELSE LET m == CHOOSE x \in S : \A y \in S : x <= y
       IN  <<m>> \o KeySeq(S \ {m})

\* Object.keys(data).map(k => ({ id: k, ...data[k] }))
ListView(data) ==
  LET ks == KeySeq(DOMAIN data)
  IN  [i \in 1..Len(ks) |-> Spread([id |-> ks[i]], data[ks[i]])]

(* ------------------------------ requests ------------------------------- *)
Idle ==
  [op |-> "none", pc |-> "idle", tok |-> "none", uid |-> NoUid, id |-> NoKey, body |-> Empty,
   now |-> 0, snap |-> Empty, key |-> NoKey, code |-> 0, failedAt |-> "none",
   preNotes |-> Empty, preTrash |-> Empty, interfered |-> FALSE]

\* a bug: DELETE /api/notes/:id removes the note before it writes the trash
NextPcRemoveFirst(op, pc) ==
  CASE op = "update" /\ pc = "update" -> "read"
    [] op = "softDelete" /\ pc = "read" -> "remove"
    [] op = "softDelete" /\ pc = "remove" -> "push"
    [] op = "restore" /\ pc = "read" -> "push"
    [] op = "restore" /\ pc = "push" -> "remove"
    [] op = "upload" /\ pc = "blob" -> "url"
    [] OTHER -> "done"

\* the order of the awaited store calls in each handler: the call that
\* follows the call at pc, "done" when res.json follows
NextPc(op, pc) ==
  CASE op = "update" /\ pc = "update" -> "read"
    [] op = "softDelete" /\ pc = "read" -> "push"
    [] op = "softDelete" /\ pc = "push" -> "remove"
    [] op = "restore" /\ pc = "read" -> "push"
    [] op = "restore" /\ pc = "push" -> "remove"
    [] op = "upload" /\ pc = "blob" -> "url"
    [] OTHER -> "done"

\* the first awaited store call of a handler
FirstPc(op) ==
  CASE op = "update" -> "update"
    [] op = "create" -> "push"
    [] op = "permaDelete" -> "remove"
    [] op = "upload" -> "blob"
    [] OTHER -> "read"

\* a bug: every valid token is taken for the first owner's
VerifyFirst(tok) == IF tok \in Owners THEN "u1" ELSE NoUid

\* verifyTokenMiddleware: the uid of a valid token
Verify(tok) == IF tok \in Owners THEN tok ELSE NoUid

\* a request whose handler has been entered with req.user set
Begin(op, uid, id, body) ==
  [Idle EXCEPT !.op = op, !.pc = FirstPc(op), !.uid = uid, !.id = id, !.body = body,
               !.preNotes = notes[uid], !.preTrash = trash[uid]]

\* a request the middleware answered 401
Rejected == [Idle EXCEPT !.op = "rejected", !.pc = "done", !.code = 401]

\* history: a store write of request r falls within the lifetime of every
\* other request of its owner, which from then on is no longer alone (its
\* view of the collections at arrival is dropped)
Touch(rs, r) ==
  [s \in Slots |->
     IF s # r /\ rs[s].op # "none" /\ rs[s].uid = rs[r].uid
     THEN [rs[s] EXCEPT !.interfered = TRUE, !.preNotes = Empty, !.preTrash = Empty]
     ELSE rs[s]]

\* a call of an async function of app.js that has not been made
IdleTask == [fn |-> "none", pc |-> "idle", todo |-> << >>, failed |-> FALSE]

\* The database outlives the server: at start owner u1 has the note of an
\* earlier POST /api/notes under key 1 and, in the trash under key 2, the
\* record an earlier DELETE /api/notes/:id made of another note; both were
\* written at time 0, and the clock now reads 1.
InitNotes == (1 :> [text |-> "a", file |-> "f1", createdAt |-> 0, updatedAt |-> 0])
InitTrash == (2 :> [text |-> "", createdAt |-> 0, updatedAt |-> 0, deletedAt |-> 0])

Init ==
  /\ notes = [u \in Owners |-> IF u = "u1" THEN InitNotes ELSE Empty]
  /\ trash = [u \in Owners |-> IF u = "u1" THEN InitTrash ELSE Empty]
  /\ nextKey = 3
  /\ clock = 1
  /\ reqs = [s \in Slots |-> Idle]
  /\ root = [k \in {GhostKey, 1, 2} |-> k]
  /\ removed = [u \in Owners |-> {}]
  /\ purged = [u \in Owners |-> {}]
  /\ uploads = {}
  /\ bucket = {}
  /\ idToken = Null
  /\ clientNotes = << >>
  /\ clientTrash = << >>
  /\ tasks = [t \in Slots |-> IdleTask]
  /\ fetched = << >>

\* ids a client can name: the keys handed out so far, and a made-up one
KnownIds == GhostKey..(nextKey - 1)

\* the state of the browser client
ClientVars == <<idToken, clientNotes, clientTrash, tasks, fetched>>

\* what the handlers of /api/notes and /api/trash never touch
Elsewhere == <<uploads, bucket, ClientVars>>

\* wall clock advancing between two readings of Date.now()
Tick ==
  /\ clock < MaxClock
  /\ clock' = clock + 1
  /\ UNCHANGED <<notes, trash, nextKey, reqs, root, removed, purged, Elsewhere>>

(* ------------------------------ handlers ------------------------------- *)
StoreVars == <<notes, trash, nextKey, root, removed, purged>>

\* a request arrives at a free slot with bearer token tok;
\* verifyTokenMiddleware answers 401 or enters the handler, whose locals are req
Arrive(s, tok, op, req) ==
  /\ reqs[s].op = "none"
  /\ \A t \in Slots : t < s => reqs[t].op # "none"
  /\ reqs' = [reqs EXCEPT ![s] =
       IF Verify(tok) = NoUid THEN Rejected ELSE [req EXCEPT !.tok = tok]]

\* request s is at the awaited store call pc of handler op
At(s, op, pc) == reqs[s].op = op /\ reqs[s].pc = pc

\* res.json / res.status(code).json of request s
Answer(rs, s, code) == [rs EXCEPT ![s].pc = "done", ![s].code = code]

\* the awaited call of request s has resolved: the handler runs on to its
\* next await, or to res.json
Advance(rs, s) ==
  LET n == NextPc(rs[s].op, rs[s].pc)
  IN  IF n = "done" THEN Answer(rs, s, 200) ELSE [rs EXCEPT ![s].pc = n]

\* GET /api/notes
StartListNotes(s, tok) ==
  /\ Arrive(s, tok, "listNotes", Begin("listNotes", Verify(tok), NoKey, Empty))
  /\ UNCHANGED <<StoreVars, clock, Elsewhere>>

ListNotesRead(s) ==
  /\ At(s, "listNotes", "read")
  /\ reqs' = Advance([reqs EXCEPT ![s].snap = notes[reqs[s].uid]], s)
  /\ UNCHANGED <<StoreVars, clock, Elsewhere>>

\* GET /api/trash
StartListTrash(s, tok) ==
  /\ Arrive(s, tok, "listTrash", Begin("listTrash", Verify(tok), NoKey, Empty))
  /\ UNCHANGED <<StoreVars, clock, Elsewhere>>

ListTrashRead(s) ==
  /\ At(s, "listTrash", "read")
  /\ reqs' = Advance([reqs EXCEPT ![s].snap = trash[reqs[s].uid]], s)
  /\ UNCHANGED <<StoreVars, clock, Elsewhere>>

\* the note POST /api/notes builds; Date.now() is read twice
NewNote(body, t1, t2) ==
  [text |-> OrElse(body, "text", ""), file |-> OrElse(body, "file", Null),
   createdAt |-> t1, updatedAt |-> t2]

\* POST /api/notes: the handler up to the awaited push
StartCreateNote(s, tok, body) ==
  \E d \in {0, 1} :
    /\ clock + d <= MaxClock
    /\ Arrive(s, tok, "create",
         [Begin("create", Verify(tok), NoKey, body)
            EXCEPT !.now = clock + d, !.snap = NewNote(body, clock, clock + d)])
    /\ clock' = IF Verify(tok) = NoUid THEN clock ELSE clock + d
    /\ UNCHANGED <<StoreVars, Elsewhere>>

\* notesRef(uid).push(note) lands
CreateNotePush(s) ==
  LET u == reqs[s].uid IN
  /\ At(s, "create", "push")
  /\ notes' = [notes EXCEPT ![u] = DbSet(notes[u], nextKey, reqs[s].snap)]
  /\ root' = (nextKey :> nextKey) @@ root
  /\ nextKey' = nextKey + 1
  /\ reqs' = Advance(Touch([reqs EXCEPT ![s].key = nextKey], s), s)
  /\ UNCHANGED <<trash, clock, removed, purged, Elsewhere>>

\* { ...req.body, updatedAt: Date.now() }
UpdateOf(body, now) == Spread(body, [updatedAt |-> now])

\* PUT /api/notes/:id: the handler up to the awaited update
StartUpdateNote(s, tok, id, body) ==
  /\ Arrive(s, tok, "update",
       [Begin("update", Verify(tok), id, body) EXCEPT !.now = clock])
  /\ UNCHANGED <<StoreVars, clock, Elsewhere>>

\* notesRef(uid).child(id).update(update) lands
UpdateNoteWrite(s) ==
  LET u == reqs[s].uid IN
  /\ At(s, "update", "update")
  /\ notes' = [notes EXCEPT ![u] =
       DbUpdate(notes[u], reqs[s].id, UpdateOf(reqs[s].body, reqs[s].now))]
  /\ reqs' = Advance(Touch(reqs, s), s)
  /\ UNCHANGED <<trash, nextKey, clock, root, removed, purged, Elsewhere>>

\* notesRef(uid).child(id).once('value'), then res.json({ id, ...snap.val() })
UpdateNoteRead(s) ==
  /\ At(s, "update", "read")
  /\ reqs' = Advance([reqs EXCEPT ![s].snap = DbGet(notes[reqs[s].uid], reqs[s].id)], s)
  /\ UNCHANGED <<StoreVars, clock, Elsewhere>>

\* DELETE /api/notes/:id
StartDeleteNote(s, tok, id) ==
  /\ Arrive(s, tok, "softDelete", Begin("softDelete", Verify(tok), id, Empty))
  /\ UNCHANGED <<StoreVars, clock, Elsewhere>>

\* the read of the note, the 404, and Date.now() of the trash record
DeleteNoteRead(s) ==
  LET note == DbGet(notes[reqs[s].uid], reqs[s].id) IN
  /\ At(s, "softDelete", "read")
  /\ reqs' = IF note = Empty
             THEN Answer(reqs, s, 404)
             ELSE Advance([reqs EXCEPT ![s].snap = note, ![s].now = clock], s)
  /\ UNCHANGED <<StoreVars, clock, Elsewhere>>

\* a bug: the trash record keeps the time of deletion and drops the note
TrashRecordBare(note, now) == [deletedAt |-> now]

\* { ...note, deletedAt: Date.now() }
TrashRecord(note, now) == Spread(note, [deletedAt |-> now])

\* trashRef(uid).push({ ...note, deletedAt }) lands
DeleteNotePush(s) ==
  LET u == reqs[s].uid IN
  /\ At(s, "softDelete", "push")
  /\ trash' = [trash EXCEPT ![u] =
       DbSet(trash[u], nextKey, TrashRecord(reqs[s].snap, reqs[s].now))]
  /\ root' = (nextKey :> root[reqs[s].id]) @@ root
  /\ nextKey' = nextKey + 1
  /\ reqs' = Advance(Touch([reqs EXCEPT ![s].key = nextKey], s), s)
  /\ UNCHANGED <<notes, clock, removed, purged, Elsewhere>>

\* a bug: the removal of a note that is no longer there answers 404
DeleteNoteRemoveChecked(s) ==
  LET u == reqs[s].uid IN
  /\ At(s, "softDelete", "remove")
  /\ notes' = [notes EXCEPT ![u] = DbRemove(notes[u], reqs[s].id)]
  /\ removed' = [removed EXCEPT ![u] = @ \cup {reqs[s].id}]
  /\ reqs' = IF reqs[s].id \in DOMAIN notes[u]
             THEN Advance(Touch(reqs, s), s)
             ELSE Answer(Touch(reqs, s), s, 404)
  /\ UNCHANGED <<trash, nextKey, clock, root, purged, Elsewhere>>

\* notesRef(uid).child(id).remove() lands, then res.json({ ok: true })
DeleteNoteRemove(s) ==
  LET u == reqs[s].uid IN
  /\ At(s, "softDelete", "remove")
  /\ notes' = [notes EXCEPT ![u] = DbRemove(notes[u], reqs[s].id)]
  /\ removed' = [removed EXCEPT ![u] = @ \cup {reqs[s].id}]
  /\ reqs' = Advance(Touch(reqs, s), s)
  /\ UNCHANGED <<trash, nextKey, clock, root, purged, Elsewhere>>

\* POST /api/trash/restore/:id
StartRestore(s, tok, id) ==
  /\ Arrive(s, tok, "restore", Begin("restore", Verify(tok), id, Empty))
  /\ UNCHANGED <<StoreVars, clock, Elsewhere>>

\* the read of the trash item and the 404
RestoreRead(s) ==
  LET item == DbGet(trash[reqs[s].uid], reqs[s].id) IN
  /\ At(s, "restore", "read")
  /\ reqs' = IF item = Empty
             THEN Answer(reqs, s, 404)
             ELSE Advance([reqs EXCEPT ![s].snap = item], s)
  /\ UNCHANGED <<StoreVars, clock, Elsewhere>>

\* a bug: restore copies the text and the timestamps and forgets the file
RestoredNoteNoFile(item) == [f \in DOMAIN item \ {"file"} |-> item[f]]

\* the note notesRef(uid).push(item) writes
RestoredNote(item) == item

\* notesRef(uid).push(item) lands
RestorePush(s) ==
  LET u == reqs[s].uid IN
  /\ At(s, "restore", "push")
  /\ notes' = [notes EXCEPT ![u] = DbSet(notes[u], nextKey, RestoredNote(reqs[s].snap))]
  /\ root' = (nextKey :> root[reqs[s].id]) @@ root
  /\ nextKey' = nextKey + 1
  /\ reqs' = Advance(Touch([reqs EXCEPT ![s].key = nextKey], s), s)
  /\ UNCHANGED <<trash, clock, removed, purged, Elsewhere>>

\* trashRef(uid).child(id).remove() lands, then res.json({ id: newRef.key, ...item })
RestoreRemove(s) ==
  LET u == reqs[s].uid IN
  /\ At(s, "restore", "remove")
  /\ trash' = [trash EXCEPT ![u] = DbRemove(trash[u], reqs[s].id)]
  /\ reqs' = Advance(Touch(reqs, s), s)
  /\ UNCHANGED <<notes, nextKey, clock, root, removed, purged, Elsewhere>>

\* DELETE /api/trash/:id
StartDeleteTrash(s, tok, id) ==
  /\ Arrive(s, tok, "permaDelete", Begin("permaDelete", Verify(tok), id, Empty))
  /\ UNCHANGED <<StoreVars, clock, Elsewhere>>

\* a bug: DELETE /api/trash/:id answers 404 for an entry that is not there
DeleteTrashRemoveChecked(s) ==
  LET u == reqs[s].uid IN
  /\ At(s, "permaDelete", "remove")
  /\ trash' = [trash EXCEPT ![u] = DbRemove(trash[u], reqs[s].id)]
  /\ purged' = [purged EXCEPT ![u] =
       IF reqs[s].id \in DOMAIN trash[u] THEN @ \cup {root[reqs[s].id]} ELSE @]
  /\ reqs' = IF reqs[s].id \in DOMAIN trash[u]
             THEN Advance(Touch(reqs, s), s)
             ELSE Answer(Touch(reqs, s), s, 404)
  /\ UNCHANGED <<notes, nextKey, clock, root, removed, Elsewhere>>

\* trashRef(uid).child(id).remove() lands, then res.json({ ok: true })
DeleteTrashRemove(s) ==
  LET u == reqs[s].uid IN
  /\ At(s, "permaDelete", "remove")
  /\ trash' = [trash EXCEPT ![u] = DbRemove(trash[u], reqs[s].id)]
  /\ purged' = [purged EXCEPT ![u] =
       IF reqs[s].id \in DOMAIN trash[u] THEN @ \cup {root[reqs[s].id]} ELSE @]
  /\ reqs' = Advance(Touch(reqs, s), s)
  /\ UNCHANGED <<notes, nextKey, clock, root, removed, Elsewhere>>

\* a bug: the catch block swallows the error and answers ok
StoreFailureOk(s) ==
  /\ reqs[s].pc \in {"read", "push", "update", "remove"}
  /\ reqs' = Answer([reqs EXCEPT ![s].failedAt = reqs[s].pc], s, 200)
  /\ UNCHANGED <<StoreVars, clock, Elsewhere>>

\* an awaited store call rejects: catch (err) answers 500
StoreFailure(s) ==
  /\ reqs[s].pc \in {"read", "push", "update", "remove"}
  /\ reqs' = Answer([reqs EXCEPT ![s].failedAt = reqs[s].pc], s, 500)
  /\ UNCHANGED <<StoreVars, clock, Elsewhere>>

\* `users/${req.user.uid}/notes/${uuidv4()}_${req.file.originalname}`; the
\* uuid is fresh for every request, as the slot of the request is
Destination(uid, s, file) == [uid |-> uid, uuid |-> s, name |-> file.name]

\* POST /api/upload: after verifyTokenMiddleware, upload.single('file') writes
\* the file part into uploads/ and sets req.file; the handler answers 400
\* without one, and else runs up to the awaited bucket.upload
StartUpload(s, tok, file) ==
  /\ Arrive(s, tok, "upload",
       IF file = NoFile
       THEN [Begin("upload", Verify(tok), NoKey, Empty) EXCEPT !.pc = "done", !.code = 400]
       ELSE [Begin("upload", Verify(tok), NoKey, Empty) EXCEPT !.snap = file, !.key = s])
  /\ uploads' = IF Verify(tok) # NoUid /\ file # NoFile THEN uploads \cup {s} ELSE uploads
  /\ UNCHANGED <<StoreVars, clock, bucket, ClientVars>>

\* bucket.upload(localPath, { destination }) resolves, then
\* fs.unlinkSync(localPath)
UploadBlob(s) ==
  /\ At(s, "upload", "blob")
  /\ bucket' = bucket \cup {Destination(reqs[s].uid, s, reqs[s].snap)}
  /\ uploads' = uploads \ {reqs[s].key}
  /\ reqs' = Advance(reqs, s)
  /\ UNCHANGED <<StoreVars, clock, ClientVars>>

\* file.getSignedUrl resolves, then res.json({ name, mime, size, url })
UploadSignedUrl(s) ==
  /\ At(s, "upload", "url")
  /\ reqs' = Advance(reqs, s)
  /\ UNCHANGED <<StoreVars, clock, uploads, bucket, ClientVars>>

\* bucket.upload or getSignedUrl rejects: catch (err) answers 500
UploadFailure(s) ==
  /\ reqs[s].op = "upload" /\ reqs[s].pc \in {"blob", "url"}
  /\ reqs' = Answer([reqs EXCEPT ![s].failedAt = reqs[s].pc], s, 500)
  /\ UNCHANGED <<StoreVars, clock, uploads, bucket, ClientVars>>

\* the body res.json sends for request s
ResBody(s) ==
  LET r == reqs[s] IN
  CASE r.code # 200 -> [error |-> r.code]
    [] r.op \in {"listNotes", "listTrash"} -> ListView(r.snap)
    [] r.op = "create" -> Spread([id |-> r.key], r.snap)
    [] r.op = "update" -> Spread([id |-> r.id], r.snap)
    [] r.op = "restore" -> Spread([id |-> r.key], r.snap)
    [] r.op = "upload" -> Spread(r.snap, [url |-> Destination(r.uid, s, r.snap)])
    [] OTHER -> [ok |-> TRUE]

NextFor(toks, ubodies) ==
  \/ Tick
  \/ \E s \in Slots, tok \in toks : StartListNotes(s, tok)
  \/ \E s \in Slots : ListNotesRead(s)
  \/ \E s \in Slots, tok \in toks : StartListTrash(s, tok)
  \/ \E s \in Slots : ListTrashRead(s)
  \/ \E s \in Slots, tok \in toks, body \in CreateBodies : StartCreateNote(s, tok, body)
  \/ \E s \in Slots : CreateNotePush(s)
  \/ \E s \in Slots, tok \in toks, id \in KnownIds, body \in ubodies :
       StartUpdateNote(s, tok, id, body)
  \/ \E s \in Slots : UpdateNoteWrite(s)
  \/ \E s \in Slots : UpdateNoteRead(s)
  \/ \E s \in Slots, tok \in toks, id \in KnownIds : StartDeleteNote(s, tok, id)
  \/ \E s \in Slots : DeleteNoteRead(s)
  \/ \E s \in Slots : DeleteNotePush(s)
  \/ \E s \in Slots : DeleteNoteRemove(s)
  \/ \E s \in Slots, tok \in toks, id \in KnownIds : StartRestore(s, tok, id)
  \/ \E s \in Slots : RestoreRead(s)
  \/ \E s \in Slots : RestorePush(s)
  \/ \E s \in Slots : RestoreRemove(s)
  \/ \E s \in Slots, tok \in toks, id \in KnownIds : StartDeleteTrash(s, tok, id)
  \/ \E s \in Slots : DeleteTrashRemove(s)
  \/ \E s \in Slots : StoreFailure(s)

\* one signed-in owner, and requests with a token verifyIdToken rejects
Next == NextFor({"u1", "bad"}, UpdateBodies)

Spec == Init /\ [][Next]_vars

\* both owners signed in, each naming any id handed out so far, the other
\* owner's too
NextOwners == NextFor(Owners, {[text |-> "b"], [id |-> 1]})

SpecOwners == Init /\ [][NextOwners]_vars

\* the requests of POST /api/upload
NextUpload ==
  \/ \E s \in Slots, tok \in Tokens, file \in Files \cup {NoFile} : StartUpload(s, tok, file)
  \/ \E s \in Slots : UploadBlob(s)
  \/ \E s \in Slots : UploadSignedUrl(s)
  \/ \E s \in Slots : UploadFailure(s)

SpecUpload == Init /\ [][NextUpload]_vars

(* --------------------------- browser client ---------------------------- *)
\* The client of public/app.js, signed in as one user.  Each call of an
\* async function is a task; the requests of task t travel in slot t, one
\* at a time, and the server handles them step by step as above.
ClientUser == "u1"

\* the async functions a user event calls
ClientFns ==
  { "signIn", "signOut", "createNote", "editNote", "deleteNote", "saveNote",
    "toggleTodo", "restore", "permaDelete" }

\* n.text.startsWith('todo:')
IsTodo(n) == "text" \in DOMAIN n /\ n.text \in {"todo:a"}

\* n.done read as a boolean (undefined is falsy)
DoneFlag(n) == "done" \in DOMAIN n /\ n.done

\* the ids of the records of an array
IdsOf(list) == {list[i].id : i \in 1..Len(list)}

\* notes.find(n => n.id === id), for an id that is in the array
Find(list, id) == list[CHOOSE i \in 1..Len(list) : list[i].id = id]

\* note.done = !note.done on the record notes.find returned
Toggled(list, id) ==
  [i \in 1..Len(list) |->
     IF list[i].id = id
     THEN Spread(list[i], [done |-> ~DoneFlag(list[i])])
     ELSE list[i]]

\* renderTodos: the to-do items the todo page shows
RenderTodos == SelectSeq(clientNotes, IsTodo)

\* renderTrash: the cards the trash page shows, trash.slice().reverse()
RenderTrash == [i \in 1..Len(clientTrash) |-> clientTrash[Len(clientTrash) + 1 - i]]

\* the fetches a function awaits after its own request, in order
After(fn) ==
  CASE fn \in {"signIn", "deleteNote", "restore"} -> <<"notes", "trash">>
    [] fn = "permaDelete" -> <<"trash">>
    [] fn = "signOut" -> << >>
    [] OTHER -> <<"notes">>

\* the request apiFetch sends for function fn, as the server's handler takes
\* it up; text is what the user typed, done the flag toggleTodo computed
ApiRequest(fn, tok, id, done) ==
  LET u == Verify(tok) IN
  CASE fn = "createNote" ->
         [Begin("create", u, NoKey, [text |-> "b"])
            EXCEPT !.now = clock, !.snap = NewNote([text |-> "b"], clock, clock)]
    [] fn \in {"editNote", "saveNote"} ->
         [Begin("update", u, id, [text |-> "b"]) EXCEPT !.now = clock]
    [] fn = "toggleTodo" ->
         [Begin("update", u, id, [done |-> done]) EXCEPT !.now = clock]
    [] fn = "deleteNote" -> Begin("softDelete", u, id, Empty)
    [] fn = "restore" -> Begin("restore", u, id, Empty)
    [] fn = "permaDelete" -> Begin("permaDelete", u, id, Empty)
    [] fn = "notes" -> Begin("listNotes", u, NoKey, Empty)
    [] fn = "trash" -> Begin("listTrash", u, NoKey, Empty)

\* apiFetch: the request goes out with the token held now (none when idToken
\* is null), and verifyTokenMiddleware takes it up
Send(rs, t, tok, req) ==
  [rs EXCEPT ![t] = IF Verify(tok) = NoUid THEN Rejected ELSE [req EXCEPT !.tok = tok]]

\* task t runs on through the fetches of todo with token tok and arrays cn
\* and ct: fetchNotes / fetchTrash empty their array and return when there
\* is no token, and else send GET /api/notes or /api/trash and await it
Proceed(t, todo, tok, cn, ct, ft) ==
  IF todo # << >> /\ tok # Null
  THEN /\ tasks' = [tasks EXCEPT ![t].pc = "fetch", ![t].todo = todo]
       /\ reqs' = Send(reqs, t, tok, ApiRequest(Head(todo), tok, NoKey, FALSE))
       /\ clientNotes' = cn
       /\ clientTrash' = ct
       /\ fetched' = ft
  ELSE LET has(w) == \E i \in 1..Len(todo) : todo[i] = w IN
       /\ tasks' = [tasks EXCEPT ![t].pc = "done", ![t].todo = << >>]
       /\ reqs' = [reqs EXCEPT ![t] = Idle]
       /\ clientNotes' = IF has("notes") THEN << >> ELSE cn
       /\ clientTrash' = IF has("trash") THEN << >> ELSE ct
       /\ fetched' = IF has("notes") THEN << >> ELSE ft

ServerVars == <<notes, trash, nextKey, clock, root, removed, purged, uploads, bucket>>

\* a user event calls fn: the function runs up to its first await
ClientCall(t, fn, id) ==
  /\ tasks[t].pc = "idle"
  /\ \A x \in Slots : x < t => tasks[x].pc # "idle"
  /\ CASE fn = "signIn" -> idToken = Null
       [] fn = "signOut" -> idToken # Null
       [] fn = "createNote" -> idToken # Null
       [] fn \in {"editNote", "deleteNote", "saveNote"} -> id \in IdsOf(clientNotes)
       [] fn = "toggleTodo" -> id \in IdsOf(clientNotes) /\ IsTodo(Find(clientNotes, id))
       [] fn \in {"restore", "permaDelete"} -> id \in IdsOf(clientTrash)
  /\ IF fn \in {"signIn", "signOut"}
     THEN /\ tasks' = [tasks EXCEPT ![t] =
                [IdleTask EXCEPT !.fn = fn, !.todo = After(fn),
                                 !.pc = IF fn = "signIn" THEN "token" ELSE "signOut"]]
          /\ UNCHANGED <<reqs, clientNotes>>
     ELSE LET cn == IF fn = "toggleTodo" THEN Toggled(clientNotes, id) ELSE clientNotes
              done == IF fn = "toggleTodo" THEN ~DoneFlag(Find(clientNotes, id)) ELSE FALSE
          IN  /\ tasks' = [tasks EXCEPT ![t] =
                    [IdleTask EXCEPT !.fn = fn, !.todo = After(fn), !.pc = "api"]]
              /\ reqs' = Send(reqs, t, idToken, ApiRequest(fn, idToken, id, done))
              /\ clientNotes' = cn
  /\ UNCHANGED <<ServerVars, idToken, clientTrash, fetched>>

\* idToken = await user.getIdToken() of onUserChanged, then fetchNotes()
TokenResolves(t) ==
  /\ tasks[t].pc = "token"
  /\ idToken' = ClientUser
  /\ Proceed(t, tasks[t].todo, ClientUser, clientNotes, clientTrash, fetched)
  /\ UNCHANGED ServerVars

\* await auth.signOut() of the sign-out button, then idToken = null; the
\* onAuthStateChanged callback sets the same
SignOutResolves(t) ==
  /\ tasks[t].pc = "signOut"
  /\ idToken' = Null
  /\ tasks' = [tasks EXCEPT ![t].pc = "done"]
  /\ UNCHANGED <<ServerVars, reqs, clientNotes, clientTrash, fetched>>

\* the answer to the request of the function itself: apiFetch throws when
\* res.ok is false, which ends the function; else fetchNotes() is next
ApiResolves(t) ==
  /\ tasks[t].pc = "api" /\ reqs[t].pc = "done"
  /\ IF reqs[t].code = 200
     THEN Proceed(t, tasks[t].todo, idToken, clientNotes, clientTrash, fetched)
     ELSE /\ tasks' = [tasks EXCEPT ![t].pc = "done", ![t].failed = TRUE]
          /\ reqs' = [reqs EXCEPT ![t] = Idle]
          /\ UNCHANGED <<clientNotes, clientTrash, fetched>>
  /\ UNCHANGED <<ServerVars, idToken>>

\* the answer to GET /api/notes or GET /api/trash: the array is replaced by
\* the list, or by [] when apiFetch threw; the next fetch follows
FetchResolves(t) ==
  /\ tasks[t].pc = "fetch" /\ reqs[t].pc = "done"
  /\ LET list == IF reqs[t].code = 200 THEN ResBody(t) ELSE << >>
         which == Head(tasks[t].todo)
     IN  Proceed(t, Tail(tasks[t].todo), idToken,
                 IF which = "notes" THEN list ELSE clientNotes,
                 IF which = "trash" THEN list ELSE clientTrash,
                 IF which = "notes" THEN list ELSE fetched)
  /\ UNCHANGED <<ServerVars, idToken>>

\* the database when the page is loaded: one to-do note and one trash entry
\* of the user
ClientInitNotes == (1 :> [text |-> "todo:a", createdAt |-> 0, updatedAt |-> 0])

InitClient ==
  /\ notes = [u \in Owners |-> IF u = ClientUser THEN ClientInitNotes ELSE Empty]
  /\ trash = [u \in Owners |-> IF u = ClientUser THEN InitTrash ELSE Empty]
  /\ nextKey = 3
  /\ clock = 1
  /\ reqs = [s \in Slots |-> Idle]
  /\ root = [k \in {GhostKey, 1, 2} |-> k]
  /\ removed = [u \in Owners |-> {}]
  /\ purged = [u \in Owners |-> {}]
  /\ uploads = {}
  /\ bucket = {}
  /\ idToken = Null
  /\ clientNotes = << >>
  /\ clientTrash = << >>
  /\ tasks = [t \in Slots |-> IdleTask]
  /\ fetched = << >>

NextClient ==
  \/ \E t \in Slots, fn \in ClientFns, id \in KnownIds : ClientCall(t, fn, id)
  \/ \E t \in Slots : TokenResolves(t)
  \/ \E t \in Slots : SignOutResolves(t)
  \/ \E t \in Slots : ApiResolves(t)
  \/ \E t \in Slots : FetchResolves(t)
  \/ \E s \in Slots : ListNotesRead(s)
  \/ \E s \in Slots : ListTrashRead(s)
  \/ \E s \in Slots : CreateNotePush(s)
  \/ \E s \in Slots : UpdateNoteWrite(s)
  \/ \E s \in Slots : UpdateNoteRead(s)
  \/ \E s \in Slots : DeleteNoteRead(s)
  \/ \E s \in Slots : DeleteNotePush(s)
  \/ \E s \in Slots : DeleteNoteRemove(s)
  \/ \E s \in Slots : RestoreRead(s)
  \/ \E s \in Slots : RestorePush(s)
  \/ \E s \in Slots : RestoreRemove(s)
  \/ \E s \in Slots : DeleteTrashRemove(s)
  \/ \E s \in Slots : StoreFailure(s)

SpecClient == InitClient /\ [][NextClient]_vars

(* ------------------------------- claims -------------------------------- *)
Done(s) == reqs[s].pc = "done"

\* request s of handler op was answered 200
Ok(s, op) == reqs[s].op = op /\ Done(s) /\ reqs[s].code = 200

\* no other request of the owner of s has written to the store since s arrived
Alone(s) == reqs[s].op \notin {"none", "rejected"} /\ ~reqs[s].interfered

\* records a and b agree on field f: both lack it, or both hold the same value
SameField(a, b, f) ==
  /\ (f \in DOMAIN a) <=> (f \in DOMAIN b)
  /\ f \in DOMAIN a => a[f] = b[f]

\* collection coll without key k
Without(coll, k) == [x \in DOMAIN coll \ {k} |-> coll[x]]

\* C1: when DELETE /api/notes/:id of note N answers ok and no other request of
\* the owner wrote meanwhile, the active collection has lost exactly N.id, the
\* trash has gained exactly one entry, that entry holds N's fields as they
\* were at the call plus deletedAt, and every other entry is as it was.
C1_MoveNotCopy ==
  \A s \in Slots :
    Ok(s, "softDelete") /\ Alone(s) =>
      LET r == reqs[s]
          u == r.uid
          N == r.preNotes[r.id]
      IN  /\ r.id \in DOMAIN r.preNotes
          /\ r.id \notin DOMAIN notes[u]
          /\ notes[u] = Without(r.preNotes, r.id)
          /\ \E t \in DOMAIN trash[u] \ DOMAIN r.preTrash :
               /\ DOMAIN trash[u] = DOMAIN r.preTrash \cup {t}
               /\ DOMAIN trash[u][t] = DOMAIN N \cup {"deletedAt"}
               /\ \A f \in DOMAIN N \ {"deletedAt"} : trash[u][t][f] = N[f]
          /\ \A k \in DOMAIN r.preTrash : trash[u][k] = r.preTrash[k]

C1_Witness ==
  \E s \in Slots :
    /\ Ok(s, "softDelete") /\ Alone(s)
    /\ "file" \in DOMAIN reqs[s].snap

\* C2: in DELETE /api/notes/:id and in POST /api/trash/restore/:id the removal
\* from the source is attempted only after the write into the destination has
\* landed; from the moment the handler has read its record, in every state
\* (also after a failed store call, or if the handler never runs on), a record
\* descending from the same note is in the active collection or in the trash,
\* unless a permanent delete removed a copy; and when the removal fails after
\* the write landed (no other request writing), the record is in both.
C2_DuplicationOverLoss ==
  \A s \in Slots :
    reqs[s].op \in {"softDelete", "restore"} =>
      LET r == reqs[s]
          u == r.uid
          src == IF r.op = "softDelete" THEN notes[u] ELSE trash[u]
          dst == IF r.op = "softDelete" THEN trash[u] ELSE notes[u]
      IN  /\ (r.pc = "remove" \/ r.failedAt = "remove") => r.key # NoKey
          /\ r.snap # Empty =>
               \/ root[r.id] \in purged[u]
               \/ \E k \in DOMAIN notes[u] \cup DOMAIN trash[u] : root[k] = root[r.id]
          /\ (r.failedAt = "remove" /\ Alone(s)) =>
               /\ r.id \in DOMAIN src /\ src[r.id] = r.snap
               /\ r.key \in DOMAIN dst
               /\ \A f \in DOMAIN r.snap \ {"deletedAt"} : SameField(dst[r.key], r.snap, f)

C2_Witness ==
  \E s \in Slots :
    /\ reqs[s].op = "softDelete" /\ reqs[s].failedAt = "remove" /\ Alone(s)
    /\ reqs[s].id \in DOMAIN notes[reqs[s].uid]
    /\ reqs[s].key \in DOMAIN trash[reqs[s].uid]

\* C3: when POST /api/trash/restore/:id of trash entry T answers ok and no
\* other request of the owner wrote meanwhile, the active collection has one
\* new note, with T's text and attachment, under a key that is not T.id and
\* was never a key of the active collection, and T.id has left the trash.
C3_RestorePreserves ==
  \A s \in Slots :
    Ok(s, "restore") /\ Alone(s) =>
      LET r == reqs[s]
          u == r.uid
          T == r.preTrash[r.id]
          n == r.key
      IN  /\ r.id \in DOMAIN r.preTrash
          /\ n \in DOMAIN notes[u]
          /\ n # r.id
          /\ n \notin DOMAIN r.preNotes /\ n \notin removed[u]
          /\ DOMAIN notes[u] = DOMAIN r.preNotes \cup {n}
          /\ SameField(notes[u][n], T, "text")
          /\ SameField(notes[u][n], T, "file")
          /\ r.id \notin DOMAIN trash[u]
          /\ trash[u] = Without(r.preTrash, r.id)

C3_Witness ==
  \E s \in Slots :
    /\ Ok(s, "restore") /\ Alone(s)
    /\ "file" \in DOMAIN notes[reqs[s].uid][reqs[s].key]

\* C4 (as claimed): PUT /api/notes/:id for an id that is not in the owner's
\* active collection answers 404 and leaves the active collection as it was.
C4_UpdateMissingIsNotFound ==
  \A s \in Slots :
    ( /\ reqs[s].op = "update" /\ Done(s) /\ reqs[s].failedAt = "none"
      /\ Alone(s)
      /\ reqs[s].id \notin DOMAIN reqs[s].preNotes )
    => /\ reqs[s].code = 404
       /\ notes[reqs[s].uid] = reqs[s].preNotes

\* C5 (as claimed): an id that DELETE /api/notes/:id has removed with an ok
\* answer is in the owner's active collection in no later state.
C5_DeletedIdStaysGone ==
  \A u \in Owners : removed[u] \cap DOMAIN notes[u] = {}

\* C6 (as claimed): PUT /api/notes/:id on an existing note sets every field of
\* the input (updatedAt apart, which the claim speaks of by itself), keeps
\* every other field, and leaves updatedAt strictly greater than before.
C6_UpdateMergesStrict ==
  \A s \in Slots :
    (Ok(s, "update") /\ Alone(s) /\ reqs[s].id \in DOMAIN reqs[s].preNotes) =>
      LET r == reqs[s]
          old == r.preNotes[r.id]
          new == notes[r.uid][r.id]
      IN  /\ r.id \in DOMAIN notes[r.uid]
          /\ \A f \in DOMAIN r.body \ {"updatedAt"} : f \in DOMAIN new /\ new[f] = r.body[f]
          /\ \A f \in DOMAIN old \ (DOMAIN r.body \cup {"updatedAt"}) :
               f \in DOMAIN new /\ new[f] = old[f]
          /\ new.updatedAt > old.updatedAt

\* C6 (amended): PUT /api/notes/:id on an existing note, with no other request
\* writing, sets every field of the input other than updatedAt, keeps every
\* field absent from the input, adds no other field, and sets updatedAt to the
\* reading of the clock the handler took, which is not smaller than the value
\* before the call (and equal to it within the same millisecond); the answer
\* carries the merged record.
C6_UpdateMerges ==
  \A s \in Slots :
    (Ok(s, "update") /\ Alone(s) /\ reqs[s].id \in DOMAIN reqs[s].preNotes) =>
      LET r == reqs[s]
          old == r.preNotes[r.id]
          new == notes[r.uid][r.id]
      IN  /\ r.id \in DOMAIN notes[r.uid]
          /\ DOMAIN new = DOMAIN old \cup DOMAIN r.body \cup {"updatedAt"}
          /\ \A f \in DOMAIN r.body \ {"updatedAt"} : new[f] = r.body[f]
          /\ \A f \in DOMAIN old \ (DOMAIN r.body \cup {"updatedAt"}) : new[f] = old[f]
          /\ new.updatedAt = r.now
          /\ new.updatedAt >= old.updatedAt
          /\ r.snap = new

C6_Witness ==
  \E s \in Slots :
    /\ Ok(s, "update") /\ Alone(s)
    /\ reqs[s].id \in DOMAIN reqs[s].preNotes
    /\ reqs[s].body = [done |-> TRUE]
    /\ "text" \in DOMAIN reqs[s].preNotes[reqs[s].id]
    /\ "done" \notin DOMAIN reqs[s].preNotes[reqs[s].id]

\* C7 (as claimed): the notes GET /api/notes returns carry pairwise different
\* ids, and each carries the key the store holds it under.
C7_ListedIdsAreKeys ==
  \A s \in Slots :
    Ok(s, "listNotes") =>
      LET L == ResBody(s)
          ks == KeySeq(DOMAIN reqs[s].snap)
      IN  \A i \in 1..Len(L) :
            /\ L[i].id = ks[i]
            /\ \A j \in 1..Len(L) : i # j => L[i].id # L[j].id

\* C8: DELETE /api/trash/:id answers ok whether or not the entry exists (only
\* a failing store call makes it answer otherwise); with no other request
\* writing, afterwards the entry is absent and every other trash entry and the
\* active collection are as before, so a second call leaves the state of the
\* first.
C8_PermanentDeleteIdempotent ==
  \A s \in Slots :
    (reqs[s].op = "permaDelete" /\ Done(s) /\ reqs[s].failedAt = "none") =>
      LET r == reqs[s]
          u == r.uid
      IN  /\ r.code = 200
          /\ Alone(s) =>
               /\ r.id \notin DOMAIN trash[u]
               /\ trash[u] = Without(r.preTrash, r.id)
               /\ notes[u] = r.preNotes
               /\ r.id \notin DOMAIN r.preTrash => trash[u] = r.preTrash

C8_Witness ==
  \E s1 \in Slots, s2 \in Slots :
    /\ s1 # s2
    /\ Ok(s1, "permaDelete") /\ Ok(s2, "permaDelete")
    /\ reqs[s1].uid = reqs[s2].uid /\ reqs[s1].id = reqs[s2].id
    /\ Alone(s2)
    /\ root[reqs[s1].id] \in purged[reqs[s1].uid]
    /\ reqs[s2].id \notin DOMAIN reqs[s2].preTrash

\* C9 (as claimed): no record of an active collection has a deletedAt field.
C9_ActiveHasNoDeletedAt ==
  \A u \in Owners : \A k \in DOMAIN notes[u] : "deletedAt" \notin DOMAIN notes[u][k]

\* C10: when the trash write of DELETE /api/notes/:id fails the request is
\* answered with a failure, it has written nothing (with no other request
\* writing, the note and the trash are as they were); and whenever the request
\* is answered ok, its trash write and its removal have both landed.
C10_NoPartialSuccess ==
  \A s \in Slots :
    reqs[s].op = "softDelete" =>
      LET r == reqs[s]
          u == r.uid
      IN  /\ r.failedAt = "push" =>
               /\ Done(s) /\ r.code = 500
               /\ r.key = NoKey
               /\ Alone(s) =>
                    /\ notes[u] = r.preNotes
                    /\ trash[u] = r.preTrash
                    /\ r.id \in DOMAIN notes[u]
          /\ Ok(s, "softDelete") =>
               /\ r.failedAt = "none"
               /\ r.key # NoKey
               /\ r.id \in removed[u]
               /\ Alone(s) => (r.key \in DOMAIN trash[u] /\ r.id \notin DOMAIN notes[u])

C10_Witness ==
  \E s \in Slots :
    /\ reqs[s].op = "softDelete" /\ reqs[s].failedAt = "push" /\ Alone(s)
    /\ reqs[s].id \in DOMAIN notes[reqs[s].uid]

\* C11: two DELETE /api/notes/:id of one owner for the same note that have both
\* read the note (neither removal had landed) are both served to the end: each
\* pushes its own trash entry descending from that note, the removal of the
\* note that is already gone succeeds, so each is answered ok unless a store
\* call failed; and the entries left in the trash are copies of the note as
\* each request read it, with deletedAt.
C11_BothSoftDeletesSucceed ==
  \A s1 \in Slots, s2 \in Slots :
    ( /\ s1 # s2
      /\ reqs[s1].op = "softDelete" /\ reqs[s2].op = "softDelete"
      /\ reqs[s1].uid = reqs[s2].uid /\ reqs[s1].id = reqs[s2].id
      /\ reqs[s1].snap # Empty /\ reqs[s2].snap # Empty )
    => LET r1 == reqs[s1]
           r2 == reqs[s2]
           u == r1.uid
       IN  /\ r1.key # NoKey => r1.key # r2.key /\ root[r1.key] = root[r1.id]
           /\ (Done(s1) /\ r1.failedAt = "none") => r1.code = 200
           /\ (r1.key \in DOMAIN trash[u]) =>
                /\ DOMAIN trash[u][r1.key] = DOMAIN r1.snap \cup {"deletedAt"}
                /\ \A f \in DOMAIN r1.snap \ {"deletedAt"} :
                     trash[u][r1.key][f] = r1.snap[f]

C11_Witness ==
  \E s1 \in Slots, s2 \in Slots :
    /\ s1 # s2
    /\ Ok(s1, "softDelete") /\ Ok(s2, "softDelete")
    /\ reqs[s1].uid = reqs[s2].uid /\ reqs[s1].id = reqs[s2].id
    /\ reqs[s1].snap = reqs[s2].snap
    /\ {reqs[s1].key, reqs[s2].key} \subseteq DOMAIN trash[reqs[s1].uid]
    /\ reqs[s1].key # reqs[s2].key
    /\ reqs[s1].id \notin DOMAIN notes[reqs[s1].uid]

\* C12 (as claimed): the updatedAt of an active note never decreases from one
\* state to the next, and is never smaller than the note's createdAt.
C12_TimestampsMonotone ==
  /\ [](\A u \in Owners : \A k \in DOMAIN notes[u] :
          "createdAt" \in DOMAIN notes[u][k] =>
            notes[u][k].updatedAt >= notes[u][k].createdAt)
  /\ [][\A u \in Owners : \A k \in DOMAIN notes[u] \cap DOMAIN notes'[u] :
          notes'[u][k].updatedAt >= notes[u][k].updatedAt]_vars

\* C13: every step that changes the active or the trash collection of an owner
\* is a step of a request that came with that owner's token, whatever id or
\* body the request carries; and whatever a handler reads for its answer is
\* the active collection, the trash, or one record of them, of the owner of
\* the request's token.
C13_OwnerIsolation ==
  [][ /\ \A v \in Owners :
           (notes'[v] # notes[v] \/ trash'[v] # trash[v]) =>
             \E s \in Slots :
               reqs[s].tok = v /\ reqs[s].pc # "done" /\ reqs'[s].pc # reqs[s].pc
      /\ \A s \in Slots :
           (reqs[s].op # "none" /\ reqs'[s].snap # reqs[s].snap) =>
             LET t == reqs[s].tok
                 op == reqs[s].op
             IN  reqs'[s].snap =
                   CASE op = "listNotes" -> notes[t]
                     [] op = "listTrash" -> trash[t]
                     [] op \in {"update", "softDelete"} -> DbGet(notes[t], reqs[s].id)
                     [] op = "restore" -> DbGet(trash[t], reqs[s].id)
                     [] OTHER -> reqs[s].snap
    ]_vars

\* owner u2 has named note 1 of owner u1 in a PUT and in a DELETE, both
\* answered: u1's collections are as they were
C13_Witness ==
  \E s1 \in Slots, s2 \in Slots :
    /\ reqs[s1].tok = "u2" /\ Ok(s1, "update") /\ reqs[s1].id = 1
    /\ reqs[s2].tok = "u2" /\ reqs[s2].op = "softDelete" /\ Done(s2) /\ reqs[s2].id = 1
    /\ notes["u1"] = InitNotes /\ trash["u1"] = InitTrash
    /\ 1 \in DOMAIN notes["u2"] \/ 1 \in removed["u2"]

\* C14 (as claimed): when POST /api/upload has been answered, the file multer
\* wrote into uploads/ for the request is gone, whether the bucket took the
\* file, bucket.upload failed or getSignedUrl failed; and a failure of the
\* bucket is answered with a failure.
C14_UploadCleansTemp ==
  \A s \in Slots :
    (reqs[s].op = "upload" /\ Done(s)) =>
      /\ s \notin uploads
      /\ reqs[s].failedAt # "none" => reqs[s].code = 500

\* C15 (as claimed): once DELETE /api/trash/:id of a trash entry has answered
\* ok, no step creates an active note from that entry, also not a step of a
\* POST /api/trash/restore/:id of the same owner that had read the entry
\* before.
C15_PurgedNeverRestored ==
  [][ \A s1 \in Slots, s2 \in Slots :
        ( /\ Ok(s1, "permaDelete")
          /\ reqs[s2].op = "restore"
          /\ reqs[s2].uid = reqs[s1].uid /\ reqs[s2].id = reqs[s1].id
          /\ reqs[s2].key = NoKey )
        => reqs'[s2].key = NoKey
    ]_vars

\* C16 (as claimed): when PUT /api/notes/:id and DELETE /api/notes/:id of one
\* owner for the same note have overlapped and both have answered ok, the
\* fields the PUT wrote are in the record of that note, in the active
\* collection under its id or in the trash entry the DELETE made.
C16_UpdateSurvivesSoftDelete ==
  \A s1 \in Slots, s2 \in Slots :
    ( /\ Ok(s1, "update") /\ Ok(s2, "softDelete")
      /\ reqs[s1].uid = reqs[s2].uid /\ reqs[s1].id = reqs[s2].id
      /\ reqs[s1].interfered /\ reqs[s2].interfered )
    => LET r == reqs[s1]
           u == r.uid
           written == UpdateOf(r.body, r.now)
           Has(rec) == \A f \in DOMAIN written : f \in DOMAIN rec /\ rec[f] = written[f]
       IN  \/ r.id \in DOMAIN notes[u] /\ Has(notes[u][r.id])
           \/ reqs[s2].key \in DOMAIN trash[u] /\ Has(trash[u][reqs[s2].key])

\* C17 (as claimed): of the POST /api/trash/restore/:id of one owner for the
\* same trash entry at most one is answered ok and at most one has pushed an
\* active note; every other one that met no store failure is answered 404.
C17_RestoreAtMostOnce ==
  \A s1 \in Slots, s2 \in Slots :
    ( /\ s1 # s2
      /\ reqs[s1].op = "restore" /\ reqs[s2].op = "restore"
      /\ reqs[s1].uid = reqs[s2].uid /\ reqs[s1].id = reqs[s2].id )
    => /\ ~(reqs[s1].code = 200 /\ reqs[s2].code = 200)
       /\ ~(reqs[s1].key # NoKey /\ reqs[s2].key # NoKey)
       /\ (reqs[s1].code = 200 /\ Done(s2) /\ reqs[s2].failedAt = "none") =>
            reqs[s2].code = 404

\* C18 (as claimed): when the request of a client function (createNote,
\* editNote, deleteNote, saveNote, toggleTodo, restore, permaDelete) has
\* failed and no function is running, the array notes, the done flag of each
\* note included, is the list fetchNotes last assigned.
C18_FailedActionKeepsFetched ==
  \A t \in Slots :
    (tasks[t].failed /\ \A x \in Slots : tasks[x].pc \in {"idle", "done"}) =>
      clientNotes = fetched

\* C19 (as claimed): whenever idToken is null, the arrays notes and trash are
\* empty, and so are the todo page and the trash page drawn from them.
C19_SignedOutHoldsNothing ==
  idToken = Null =>
    /\ clientNotes = << >>
    /\ clientTrash = << >>
    /\ RenderTodos = << >>
    /\ RenderTrash = << >>

====
